---- MODULE Spec2Model ----
(***************************************************************************)
(* Model of the doctor appointment-confirmation route (routes/doctor.js)   *)
(* and of the e-mail service (services/emailService.js).                    *)
(*                                                                         *)
(* JavaScript strings that the code concatenates (time slot, confirmation  *)
(* message, formatted dates) are sequences of string tokens; the empty     *)
(* sequence stands for `undefined` and <<"">> for the empty string.        *)
(* Identifiers, e-mail addresses and status values are plain strings, with *)
(* NULL for an absent value.  A query result "document or null" is a       *)
(* sequence of length 1 or 0.                                              *)
(***************************************************************************)
EXTENDS Integers, Sequences, FiniteSets, TLC

VARIABLES env, doctors, appts, session, pc, req, doc, last, nconf, hist

vars == <<env, doctors, appts, session, pc, req, doc, last, nconf, hist>>

(***************************************************************************)
(* Bounds                                                                  *)
(***************************************************************************)
MaxConfirms == 3

MaxMailConfirms == 2

Conns == {1, 2}

NULL == "null"

Undefined == << >>

EmptyString == <<"">>

\* JavaScript truthiness of a (possibly undefined) string value
Truthy(s) == s # Undefined /\ s # EmptyString

\* JavaScript truthiness of an identifier-like value
Present(v) == v # NULL /\ v # ""

(***************************************************************************)
(* Date formatting: Date.prototype.toLocaleDateString                      *)
(***************************************************************************)
DigitChar == <<"0", "1", "2", "3", "4", "5", "6", "7", "8", "9">>

RECURSIVE Digits(_)
Digits(n) == IF n < 10 THEN <<DigitChar[n + 1]>>
             ELSE Digits(n \div 10) \o <<DigitChar[(n % 10) + 1]>>

Pad2(n) == IF n < 10 THEN <<"0">> \o Digits(n) ELSE Digits(n)

MonthName == <<"January", "February", "March", "April", "May", "June", "July",
               "August", "September", "October", "November", "December">>

WeekdayName == <<"Sunday", "Monday", "Tuesday", "Wednesday", "Thursday",
                 "Friday", "Saturday">>

MonthOffset == <<0, 3, 2, 5, 0, 3, 5, 1, 4, 6, 2, 4>>

\* day of the week of a Gregorian calendar date, 0 = Sunday
DayOfWeek(d) ==
    LET y == IF d.month < 3 THEN d.year - 1 ELSE d.year
    IN  (y + (y \div 4) - (y \div 100) + (y \div 400)
           + MonthOffset[d.month] + d.day) % 7

\* new Date(appointmentDate).toLocaleDateString(): no locale and no options,
\* so the numeric short date of the runtime's default locale
ShortDate(locale, d) ==
    IF locale = "en-US"
    THEN Digits(d.month) \o <<"/">> \o Digits(d.day) \o <<"/">> \o Digits(d.year)
    ELSE Pad2(d.day) \o <<"/">> \o Pad2(d.month) \o <<"/">> \o Digits(d.year)

\* new Date(appointmentDate).toLocaleDateString('en-US', {weekday: 'long',
\* year: 'numeric', month: 'long', day: 'numeric'})
LongDate(d) ==
    <<WeekdayName[DayOfWeek(d) + 1], ", ", MonthName[d.month], " ">>
        \o Digits(d.day) \o <<", ">> \o Digits(d.year)

(***************************************************************************)
(* The mail transport (nodemailer): what transporter.verify() and          *)
(* transporter.sendMail() can do.  "ok" resolves; every other outcome      *)
(* rejects with the error object ErrorOf gives.                            *)
(***************************************************************************)
ChannelOutcomes ==
    {"ok", "EAUTH", "ECONNECTION", "ETIMEDOUT", "ESOCKET", "E535", "EBARE"}

ErrorOf(outcome) ==
    CASE outcome = "EAUTH" ->
           [code |-> "EAUTH", message |-> "Invalid login", responseCode |-> 535]
      [] outcome = "ECONNECTION" ->
           [code |-> "ECONNECTION", message |-> "connect ECONNREFUSED", responseCode |-> 0]
      [] outcome = "ETIMEDOUT" ->
           [code |-> "ETIMEDOUT", message |-> "Connection timeout", responseCode |-> 0]
      [] outcome = "ESOCKET" ->
           [code |-> "ESOCKET", message |-> "Unexpected socket close", responseCode |-> 0]
      [] outcome = "E535" ->
           [code |-> "EPROTOCOL", message |-> "", responseCode |-> 535]
      [] OTHER ->
           [code |-> NULL, message |-> "", responseCode |-> 0]

Failure(message, details) ==
    [success |-> FALSE, error |-> message, details |-> details, messageId |-> NULL]

Delivered(id) ==
    [success |-> TRUE, error |-> "", details |-> "", messageId |-> id]

\* one call on the transporter and how it ended
Call(name, outcome) == [call |-> name, outcome |-> outcome]

\* what one invocation of a send function did: its return value, the calls it
\* made on the transporter, in order, and the message handed to sendMail
Invocation(result, net, mail) == [result |-> result, net |-> net, mail |-> mail]

(***************************************************************************)
(* services/emailService.js                                                *)
(***************************************************************************)
validateEmailConfig_NoPassCheck(environment) ==
    IF ~Present(environment.EMAIL_USER)
    THEN [valid |-> FALSE, error |-> "EMAIL_USER is not set in environment variables"]
    ELSE [valid |-> TRUE, error |-> ""]

validateEmailConfig(environment) ==
    IF ~Present(environment.EMAIL_USER)
    THEN [valid |-> FALSE, error |-> "EMAIL_USER is not set in environment variables"]
    ELSE IF ~Present(environment.EMAIL_PASS)
    THEN [valid |-> FALSE, error |-> "EMAIL_PASS is not set in environment variables"]
    ELSE [valid |-> TRUE, error |-> ""]

\* createTransporter: throws Error(config.error) on an invalid configuration,
\* otherwise returns the transport bound to the configured account
createTransporter(environment) ==
    LET config == validateEmailConfig(environment)
    IN  IF ~config.valid
        THEN [threw |-> TRUE,
              error |-> [code |-> NULL, message |-> config.error, responseCode |-> 0],
              user  |-> NULL]
        ELSE [threw |-> FALSE,
              error |-> [code |-> NULL, message |-> "", responseCode |-> 0],
              user  |-> environment.EMAIL_USER]

\* the catch block of sendAppointmentConfirmationEmail
ConfirmationCatch(error) ==
    LET errorMessage ==
          IF error.code = "EAUTH"
          THEN "Email authentication failed. Please check your email configuration."
          ELSE IF error.code = "ECONNECTION" \/ error.code = "ETIMEDOUT"
          THEN "Connection error. Please check your internet connection."
          ELSE IF error.message # ""
          THEN error.message
          ELSE "Failed to send appointment confirmation email."
    IN  Failure(errorMessage, error.message)

\* the catch block of sendOTPEmail
OTPCatch(error) ==
    LET errorMessage ==
          IF error.code = "EAUTH"
          THEN "Email authentication failed. Please check your EMAIL_USER and EMAIL_PASS in .env file. Make sure you're using a Gmail App Password."
          ELSE IF error.code = "ECONNECTION" \/ error.code = "ETIMEDOUT"
          THEN "Connection error. Please check your internet connection and try again."
          ELSE IF error.responseCode = 535
          THEN "Authentication failed. Please verify your Gmail App Password is correct."
          ELSE IF error.message # ""
          THEN error.message
          ELSE "Failed to send OTP email."
    IN  Failure(errorMessage, error.message)

\* one optional line of the message body: '' when the condition is falsy
OptionalLine(condition, label, value) ==
    IF condition THEN <<<<label>> \o value>> ELSE << >>

\* the mailOptions object of the confirmation: the subject and both bodies are
\* built from the same fields; doctorDetails is a sequence of 0 or 1 records
ConfirmationMail(appointmentData, doctorDetails, user) ==
    LET formattedDate == LongDate(appointmentData.appointmentDate)
        hasDoctor == doctorDetails # << >>
        lines(doctorLabel, timeLabel) ==
            <<<<"Dear ", appointmentData.patientName>>>>
            \o <<<<"Date: ">> \o formattedDate>>
            \o <<<<timeLabel>> \o appointmentData.timeSlot>>
            \o OptionalLine(hasDoctor, doctorLabel,
                   IF hasDoctor THEN <<doctorDetails[1].name>> ELSE << >>)
            \o OptionalLine(hasDoctor /\ (IF hasDoctor
                                          THEN Present(doctorDetails[1].specialization)
                                          ELSE FALSE),
                   "Specialization: ",
                   IF hasDoctor THEN <<doctorDetails[1].specialization>> ELSE << >>)
            \o OptionalLine(Truthy(appointmentData.confirmationMessage),
                   "Doctor's Note: ", appointmentData.confirmationMessage)
            \o OptionalLine(Present(appointmentData.description),
                   "Your Concern: ", <<appointmentData.description>>)
    IN  [from    |-> <<"MediCare Hub", user>>,
         to      |-> appointmentData.patientEmail,
         subject |-> <<"Appointment Confirmed - ">> \o formattedDate,
         html    |-> lines("Doctor: Dr. ", "Time Slot: "),
         text    |-> lines("Doctor: Dr. ", "Time: ")]

sendAppointmentConfirmationEmail_NoRecipientCheck(appointmentData, doctorDetails, environment, verifyOutcome, sendOutcome) ==
    LET config == validateEmailConfig(environment)
        transporter == createTransporter(environment)
        mailOptions == ConfirmationMail(appointmentData, doctorDetails, transporter.user)
    IN  IF ~config.valid
        THEN Invocation(Failure(config.error, ""), << >>, << >>)
        ELSE IF transporter.threw
        THEN Invocation(ConfirmationCatch(transporter.error), << >>, << >>)
        ELSE IF verifyOutcome # "ok"
        THEN Invocation(ConfirmationCatch(ErrorOf(verifyOutcome)),
                        <<Call("verify", verifyOutcome)>>, << >>)
        ELSE IF sendOutcome # "ok"
        THEN Invocation(ConfirmationCatch(ErrorOf(sendOutcome)),
                        <<Call("verify", "ok"), Call("sendMail", sendOutcome)>>,
                        <<mailOptions>>)
        ELSE Invocation(Delivered("<message-id>"),
                        <<Call("verify", "ok"), Call("sendMail", "ok")>>,
                        <<mailOptions>>)

sendAppointmentConfirmationEmail_RetryOnce(appointmentData, doctorDetails, environment, verifyOutcome, sendOutcome) ==
    LET config == validateEmailConfig(environment)
        transporter == createTransporter(environment)
        mailOptions == ConfirmationMail(appointmentData, doctorDetails, transporter.user)
    IN  IF ~config.valid
        THEN Invocation(Failure(config.error, ""), << >>, << >>)
        ELSE IF transporter.threw
        THEN Invocation(ConfirmationCatch(transporter.error), << >>, << >>)
        ELSE IF verifyOutcome # "ok"
        THEN Invocation(ConfirmationCatch(ErrorOf(verifyOutcome)),
                        <<Call("verify", verifyOutcome)>>, << >>)
        ELSE IF ~Present(appointmentData.patientEmail)
        THEN Invocation(Failure("Patient email not found", ""),
                        <<Call("verify", "ok")>>, << >>)
        ELSE IF sendOutcome # "ok"
        THEN Invocation(ConfirmationCatch(ErrorOf(sendOutcome)),
                        <<Call("verify", "ok"), Call("sendMail", sendOutcome),
                          Call("sendMail", sendOutcome)>>,
                        <<mailOptions, mailOptions>>)
        ELSE Invocation(Delivered("<message-id>"),
                        <<Call("verify", "ok"), Call("sendMail", "ok")>>,
                        <<mailOptions>>)

sendAppointmentConfirmationEmail(appointmentData, doctorDetails, environment, verifyOutcome, sendOutcome) ==
    LET config == validateEmailConfig(environment)
        transporter == createTransporter(environment)
        mailOptions == ConfirmationMail(appointmentData, doctorDetails, transporter.user)
    IN  IF ~config.valid
        THEN Invocation(Failure(config.error, ""), << >>, << >>)
        ELSE IF transporter.threw
        THEN Invocation(ConfirmationCatch(transporter.error), << >>, << >>)
        ELSE IF verifyOutcome # "ok"
        THEN Invocation(ConfirmationCatch(ErrorOf(verifyOutcome)),
                        <<Call("verify", verifyOutcome)>>, << >>)
        ELSE IF ~Present(appointmentData.patientEmail)
        THEN Invocation(Failure("Patient email not found", ""),
                        <<Call("verify", "ok")>>, << >>)
        ELSE IF sendOutcome # "ok"
        THEN Invocation(ConfirmationCatch(ErrorOf(sendOutcome)),
                        <<Call("verify", "ok"), Call("sendMail", sendOutcome)>>,
                        <<mailOptions>>)
        ELSE Invocation(Delivered("<message-id>"),
                        <<Call("verify", "ok"), Call("sendMail", "ok")>>,
                        <<mailOptions>>)

OTPMail(email, otp, user) ==
    [from    |-> <<"Medicare", user>>,
     to      |-> email,
     subject |-> <<"Email Verification OTP - Medicare">>,
     html    |-> <<<<"OTP: ", otp>>>>,
     text    |-> << >>]

sendOTPEmail(email, otp, environment, verifyOutcome, sendOutcome) ==
    LET config == validateEmailConfig(environment)
        transporter == createTransporter(environment)
        mailOptions == OTPMail(email, otp, transporter.user)
    IN  IF ~config.valid
        THEN Invocation(Failure(config.error, ""), << >>, << >>)
        ELSE IF transporter.threw
        THEN Invocation(OTPCatch(transporter.error), << >>, << >>)
        ELSE IF verifyOutcome # "ok"
        THEN Invocation(OTPCatch(ErrorOf(verifyOutcome)),
                        <<Call("verify", verifyOutcome)>>, << >>)
        ELSE IF sendOutcome # "ok"
        THEN Invocation(OTPCatch(ErrorOf(sendOutcome)),
                        <<Call("verify", "ok"), Call("sendMail", sendOutcome)>>,
                        <<mailOptions>>)
        ELSE Invocation(Delivered("<message-id>"),
                        <<Call("verify", "ok"), Call("sendMail", "ok")>>,
                        <<mailOptions>>)

\* the catch block of verifyEmailConnection: it tests EAUTH and ECONNECTION
\* only; every other error, ETIMEDOUT included, takes the last branch
VerifyCatch(error) ==
    LET errorMessage ==
          IF error.code = "EAUTH"
          THEN "Authentication failed. Please check your EMAIL_USER and EMAIL_PASS. Make sure you're using a Gmail App Password, not your regular password."
          ELSE IF error.code = "ECONNECTION"
          THEN "Connection failed. Please check your internet connection."
          ELSE IF error.message # ""
          THEN error.message
          ELSE "Failed to verify email configuration"
    IN  Failure(errorMessage, "")

\* {success: true, message: "Email configuration is valid"}
Verified == [success |-> TRUE, error |-> "", details |-> "", messageId |-> NULL]

verifyEmailConnection(environment, verifyOutcome) ==
    LET config == validateEmailConfig(environment)
        transporter == createTransporter(environment)
    IN  IF ~config.valid
        THEN Invocation(Failure(config.error, ""), << >>, << >>)
        ELSE IF transporter.threw
        THEN Invocation(VerifyCatch(transporter.error), << >>, << >>)
        ELSE IF verifyOutcome # "ok"
        THEN Invocation(VerifyCatch(ErrorOf(verifyOutcome)),
                        <<Call("verify", verifyOutcome)>>, << >>)
        ELSE Invocation(Verified, <<Call("verify", "ok")>>, << >>)

(***************************************************************************)
(* The stores.  Doctor records follow the doctor schema; Appointment       *)
(* records carry the fields the route and the e-mail service read.         *)
(***************************************************************************)
\* bcrypt.hash and bcrypt.compare
Hash(password) == <<"$2a$10$", password>>

Compare(password, passwordHash) == passwordHash = Hash(password)

NoDate == [year |-> 0, month |-> 0, day |-> 0]

DoctorIds == {"d1", "d2"}

InitialDoctors ==
    [d \in DoctorIds |->
        IF d = "d1"
        THEN [doctorid |-> "d1", name |-> "Smith", email |-> "smith@clinic.org",
              passwordHash |-> Hash("pw-smith"), status |-> "approved",
              specialization |-> "cardiology"]
        ELSE [doctorid |-> "d2", name |-> "Jones", email |-> "jones@clinic.org",
              passwordHash |-> Hash("pw-jones"), status |-> "pending",
              specialization |-> "neurology"]]

ApptIds == {"a1", "a2", "a3"}

NewAppointment(id, doctorid, patientName, patientEmail) ==
    [id |-> id, doctorid |-> doctorid, patientName |-> patientName,
     patientEmail |-> patientEmail, description |-> "chest pain",
     status |-> "requested", timeSlot |-> Undefined, appointmentDate |-> NoDate,
     confirmationMessage |-> Undefined]

InitialAppointments ==
    [a \in ApptIds |->
        CASE a = "a1" -> NewAppointment("a1", "d1", "Pat", "p@x.com")
          [] a = "a2" -> NewAppointment("a2", "d1", "Quinn", NULL)
          [] OTHER    -> NewAppointment("a3", "d2", "Rae", "r@x.com")]

(***************************************************************************)
(* Request inputs                                                          *)
(***************************************************************************)
RequestIds == ApptIds \cup {"a9"}

Slot1 == <<"10:00-10:30">>

Slot2 == <<"14:00-14:30">>

June1 == [year |-> 2024, month |-> 6, day |-> 1]

Dec25 == [year |-> 2024, month |-> 12, day |-> 25]

Note == <<"Bring your reports">>

Body(timeSlot, appointmentDate, confirmationMessage) ==
    [timeSlot |-> timeSlot, appointmentDate |-> appointmentDate,
     confirmationMessage |-> confirmationMessage]

\* request bodies {timeSlot, appointmentDate, confirmationMessage}
RaceBodies ==
    {Body(Slot1, June1, Undefined), Body(Slot2, June1, Note), Body(Slot1, Dec25, Note)}

Bodies == RaceBodies \cup {Body(Slot2, Dec25, EmptyString)}

Environments ==
    [EMAIL_USER : {NULL, "clinic@gmail.com"}, EMAIL_PASS : {NULL, "app-password"},
     locale : {"en-US", "en-GB"}]

NoReq ==
    [appointmentId |-> NULL, doctorId |-> NULL, timeSlot |-> Undefined,
     appointmentDate |-> NoDate, confirmationMessage |-> Undefined]

\* error.message of the error a failed store operation throws
PersistenceError(fault) ==
    CASE fault = "findOne" -> "Operation appointments.findOne() buffering timed out"
      [] fault = "save"    -> "No matching document found for id (version conflict)"
      [] OTHER             -> ""

\* the message field of the response body; a redirect has no body
ResponseMessage(kind, status, fault) ==
    IF kind # "confirm" THEN << >>
    ELSE CASE status = 404 -> <<"Appointment not found">>
           [] status = 500 -> <<"Error confirming appointment: ", PersistenceError(fault)>>
           [] status = 200 ->
                <<"Appointment confirmed successfully. Patient will be notified.">>
           [] OTHER -> << >>

\* the outcome of the handler that completed most recently: the request, the
\* response (status, success, emailSent, message), the operations it
\* ran, the document it loaded, the Appointment Store as it was before the
\* handler's last step, the persistence fault it met ("none", "findOne" or
\* "save"), the result of getDoctorById and the e-mail invocation it made
Outcome(kind, conn, request, status, success, emailSent, ops, loaded, before, fault, doctorDetails, invocation) ==
    [kind |-> kind, conn |-> conn, req |-> request, status |-> status,
     success |-> success, emailSent |-> emailSent, ops |-> ops,
     loaded |-> loaded, before |-> before, fault |-> fault,
     doctorDetails |-> doctorDetails, email |-> invocation,
     message |-> ResponseMessage(kind, status, fault)]

NoInvocation == << >>

NoSession == [doctorId |-> NULL, doctorEmail |-> NULL]

NoOutcome ==
    Outcome("none", 0, NoReq, 0, FALSE, FALSE, << >>, << >>, InitialAppointments,
            "none", << >>, NoInvocation)

(***************************************************************************)
(* routes/doctor.js                                                        *)
(***************************************************************************)
\* doctor.js imports Router, bcrypt, the two models, generateCode, multer,
\* cloudinary and the e-mail service: the identifier `mongoose` is not bound
MongooseInScope == FALSE

\* the names under which mongoose.model(name, schema) registered a model
RegisteredModels == {"doctor", "appointment"}

\* collection.findOne({field: value}) on the Identity Store
FindDoctorBy(identityStore, field, value) ==
    LET matching == {d \in DOMAIN identityStore : identityStore[d][field] = value}
    IN  IF matching = {} THEN << >>
        ELSE <<identityStore[CHOOSE d \in matching : TRUE]>>

\* getDoctorById: evaluating `mongoose` raises a ReferenceError and
\* mongoose.model('Doctor') a MissingSchemaError; the function's catch turns
\* either into null
getDoctorById(identityStore, doctorId) ==
    IF ~MongooseInScope THEN << >>
    ELSE IF "Doctor" \notin RegisteredModels THEN << >>
    ELSE FindDoctorBy(identityStore, "doctorid", doctorId)

\* appointment.findOne({_id: appointmentId, doctorid: doctorId})
FindAppointment_IdOnly(store, appointmentId, doctorId) ==
    LET matching == {a \in DOMAIN store : store[a].id = appointmentId}
    IN  IF matching = {} THEN << >> ELSE <<store[CHOOSE a \in matching : TRUE]>>

FindAppointment(store, appointmentId, doctorId) ==
    LET matching == {a \in DOMAIN store :
                        /\ store[a].id = appointmentId
                        /\ store[a].doctorid = doctorId}
    IN  IF matching = {} THEN << >> ELSE <<store[CHOOSE a \in matching : TRUE]>>

\* the sentence stored when the request carries no (truthy) confirmationMessage
GeneratedMessage_LongDate(locale, timeSlot, appointmentDate) ==
    <<"Your appointment has been confirmed for ">> \o timeSlot \o <<" on ">>
        \o LongDate(appointmentDate)

GeneratedMessage(locale, timeSlot, appointmentDate) ==
    <<"Your appointment has been confirmed for ">> \o timeSlot \o <<" on ">>
        \o ShortDate(locale, appointmentDate)

\* the four assignments to the loaded document
Assign_OnceConfirmedKeepSchedule(loaded, request, locale) ==
    IF loaded.status = "confirmed"
    THEN [loaded EXCEPT
            !.confirmationMessage =
                IF Truthy(request.confirmationMessage)
                THEN request.confirmationMessage
                ELSE GeneratedMessage(locale, request.timeSlot,
                                      request.appointmentDate)]
    ELSE [loaded EXCEPT
            !.status = "confirmed",
            !.timeSlot = request.timeSlot,
            !.appointmentDate = request.appointmentDate,
            !.confirmationMessage =
                IF Truthy(request.confirmationMessage)
                THEN request.confirmationMessage
                ELSE GeneratedMessage(locale, request.timeSlot,
                                      request.appointmentDate)]

Assign(loaded, request, locale) ==
    [loaded EXCEPT
       !.status = "confirmed",
       !.timeSlot = request.timeSlot,
       !.appointmentDate = request.appointmentDate,
       !.confirmationMessage =
           IF Truthy(request.confirmationMessage)
           THEN request.confirmationMessage
           ELSE GeneratedMessage(locale, request.timeSlot, request.appointmentDate)]

\* the paths the assignments marked modified: a path is marked when the
\* assigned value differs from the value the document was loaded with
ModifiedPaths(loaded, assigned) ==
    {f \in {"status", "timeSlot", "appointmentDate", "confirmationMessage"} :
        assigned[f] # loaded[f]}

\* foundAppointment.save(): a single-document update that sets the modified
\* paths of the record with the document's id
Save_WholeDocument(store, loaded, assigned) ==
    [store EXCEPT ![loaded.id] = assigned]

Save(store, loaded, assigned) ==
    LET modified == ModifiedPaths(loaded, assigned)
        put(f, current) == IF f \in modified THEN assigned[f] ELSE current
    IN  [store EXCEPT ![loaded.id] =
           [@ EXCEPT !.status = put("status", @),
                     !.timeSlot = put("timeSlot", @),
                     !.appointmentDate = put("appointmentDate", @),
                     !.confirmationMessage = put("confirmationMessage", @)]]

\* the emailSent field of the 200 response: the literal true
EmailSentFlag(emailResult) == TRUE

\* the status of the response that follows the notification attempt
StatusAfterNotify_FailOnEmail(emailResult) ==
    IF emailResult.success THEN 200 ELSE 500

StatusAfterNotify(emailResult) == 200

\* request bodies {email, password}: the approved doctor with the right and
\* with a wrong password, the pending doctor, an unknown address, and the
\* doctor who registers
Credentials ==
    {<<"smith@clinic.org", "pw-smith">>, <<"smith@clinic.org", "pw-jones">>,
     <<"jones@clinic.org", "pw-jones">>, <<"nobody@clinic.org", "pw-smith">>,
     <<"lee@clinic.org", "pw-lee">>}

\* the most recent request that wrote a connection's session: none yet, a
\* login (with the credentials it carried) or a logout
SessionChange(kind, email, password) ==
    [kind |-> kind, email |-> email, password |-> password]

NoHistory == SessionChange("none", NULL, NULL)

\* the response of a handler that is not the confirm handler; `found` is the
\* Doctor document the handler found or created
Response(kind, c, status, ops, fault, found) ==
    Outcome(kind, c, NoReq, status, status \in {200, 201}, FALSE, ops, << >>, appts,
            fault, found, NoInvocation)

\* the branch POST /login takes, as the status of its response
LoginStatus_NoApprovalCheck(foundDoctor, password, lookupOk) ==
    IF ~lookupOk THEN 500
    ELSE IF foundDoctor = << >> THEN 401
    ELSE IF ~Compare(password, foundDoctor[1].passwordHash) THEN 401
    ELSE 200

LoginStatus(foundDoctor, password, lookupOk) ==
    IF ~lookupOk THEN 500
    ELSE IF foundDoctor = << >> THEN 401
    ELSE IF foundDoctor[1].status # "approved" THEN 403
    ELSE IF ~Compare(password, foundDoctor[1].passwordHash) THEN 401
    ELSE 200

\* POST /login; with `record` the response and the session write are kept in
\* last and hist
Login(c, record) ==
    \E credentials \in Credentials :
    \E lookupOk \in BOOLEAN :
        LET email == credentials[1]
            password == credentials[2]
            foundDoctor == FindDoctorBy(doctors, "email", email)
            status == LoginStatus(foundDoctor, password, lookupOk)
        IN  /\ session' =
                IF status = 200
                THEN [session EXCEPT ![c] = [doctorId |-> foundDoctor[1].doctorid,
                                             doctorEmail |-> foundDoctor[1].email]]
                ELSE session
            /\ IF record
               THEN /\ last' = Response("login", c, status, <<"findOne">>,
                                        IF lookupOk THEN "none" ELSE "findOne",
                                        IF lookupOk THEN foundDoctor ELSE << >>)
                    /\ hist' = IF status = 200
                               THEN [hist EXCEPT
                                       ![c] = SessionChange("login", email, password)]
                               ELSE hist
               ELSE UNCHANGED <<last, hist>>
            /\ UNCHANGED <<env, doctors, appts, pc, req, doc, nconf>>

\* POST /logout: session.destroy, whose callback may report an error
Logout(c, record) ==
    \E err \in BOOLEAN :
        /\ session' = IF err THEN session ELSE [session EXCEPT ![c] = NoSession]
        /\ IF record
           THEN /\ last' = Response("logout", c, IF err THEN 500 ELSE 200,
                                    <<"destroy">>, "none", << >>)
                /\ hist' = IF err THEN hist
                           ELSE [hist EXCEPT ![c] = SessionChange("logout", NULL, NULL)]
           ELSE UNCHANGED <<last, hist>>
        /\ UNCHANGED <<env, doctors, appts, pc, req, doc, nconf>>

\* String.prototype.toLowerCase on the values the requests carry
Lower(text) == IF text = "Dermatology" THEN "dermatology" ELSE text

\* request bodies of POST /register: a new doctor, an address that is taken,
\* and a body without specialization
Registrations ==
    {[name |-> "Lee", email |-> "lee@clinic.org", password |-> "pw-lee",
      specialization |-> <<"Dermatology">>],
     [name |-> "Lee", email |-> "smith@clinic.org", password |-> "pw-lee",
      specialization |-> <<"Dermatology">>],
     [name |-> "Lee", email |-> "lee@clinic.org", password |-> "pw-lee",
      specialization |-> << >>]}

\* the values generateCode() may return: a fresh code or one already in use
Codes == {"d3", "d1"}

\* POST /register: the e-mail lookup, the hash, generateCode, and
\* doctor.create with status "pending"; specialization.toLowerCase() throws
\* on a missing specialization and create rejects a doctorid already in use
\* (unique index), both answered 500
Register(c) ==
    \E body \in Registrations :
    \E doctorid \in Codes :
    \E lookupOk \in BOOLEAN :
        LET existingDoctor == FindDoctorBy(doctors, "email", body.email)
            newDoctor ==
                [doctorid |-> doctorid, name |-> body.name, email |-> body.email,
                 passwordHash |-> Hash(body.password), status |-> "pending",
                 specialization |-> Lower(body.specialization[1])]
        IN  /\ IF ~lookupOk
               THEN /\ doctors' = doctors
                    /\ last' = Response("register", c, 500, <<"findOne">>, "findOne", << >>)
               ELSE IF existingDoctor # << >>
               THEN /\ doctors' = doctors
                    /\ last' = Response("register", c, 400, <<"findOne">>, "none",
                                        existingDoctor)
               ELSE IF body.specialization = << >>
               THEN /\ doctors' = doctors
                    /\ last' = Response("register", c, 500, <<"findOne">>, "none", << >>)
               ELSE IF doctorid \in DOMAIN doctors
               THEN /\ doctors' = doctors
                    /\ last' = Response("register", c, 500, <<"findOne", "create">>,
                                        "create", << >>)
               ELSE /\ doctors' = [d \in DOMAIN doctors \cup {doctorid} |->
                                     IF d = doctorid THEN newDoctor ELSE doctors[d]]
                    /\ last' = Response("register", c, 201, <<"findOne", "create">>,
                                        "none", <<newDoctor>>)
            /\ UNCHANGED <<env, appts, session, pc, req, doc, nconf, hist>>

\* POST /appointments/:appointmentId/confirm, up to the first await: the
\* isDoctorLoggedIn middleware, the request's fields and the ownership lookup
ConfirmFind(c, bodies, max) ==
    /\ pc[c] = "idle"
    /\ nconf < max
    /\ nconf' = nconf + 1
    /\ \E appointmentId \in RequestIds :
        LET doctorId == session[c].doctorId
            target == [NoReq EXCEPT !.appointmentId = appointmentId,
                                    !.doctorId = doctorId]
            foundAppointment == FindAppointment(appts, appointmentId, doctorId)
            respond(status, ops, fault) ==
                /\ last' = Outcome("confirm", c, target, status, FALSE, FALSE, ops,
                                   << >>, appts, fault, << >>, NoInvocation)
                /\ UNCHANGED <<pc, req, doc>>
        IN  IF ~Present(doctorId) THEN respond(302, << >>, "none")
            ELSE \E lookupOk \in BOOLEAN :
                   IF ~lookupOk THEN respond(500, <<"findOne">>, "findOne")
                   ELSE IF foundAppointment = << >>
                   THEN respond(404, <<"findOne">>, "none")
                   ELSE \E body \in bodies :
                          /\ pc' = [pc EXCEPT ![c] = "found"]
                          /\ req' = [req EXCEPT ![c] =
                                 [target EXCEPT
                                    !.timeSlot = body.timeSlot,
                                    !.appointmentDate = body.appointmentDate,
                                    !.confirmationMessage = body.confirmationMessage]]
                          /\ doc' = [doc EXCEPT ![c] = foundAppointment]
                          /\ UNCHANGED last
    /\ UNCHANGED <<env, doctors, appts, session, hist>>

\* the rest of the confirm handler: the assignments, save(), the doctor
\* lookup, the notification and the response
ConfirmSave_NotifyBeforeSave(c, outcomes) ==
    /\ pc[c] = "found"
    /\ LET loaded == doc[c][1]
           assigned == Assign(loaded, req[c], env.locale)
           doctorDetails == getDoctorById(doctors, req[c].doctorId)
       IN  \E verifyOutcome \in outcomes :
           \E sendOutcome \in IF verifyOutcome = "ok" THEN outcomes ELSE {"ok"} :
           \E saveOk \in BOOLEAN :
             LET invocation == sendAppointmentConfirmationEmail(
                     assigned, doctorDetails, env, verifyOutcome, sendOutcome)
                 ops == <<"findOne", "getDoctorById",
                          "sendAppointmentConfirmationEmail", "save">>
             IN  IF ~saveOk
                 THEN /\ appts' = appts
                      /\ last' = Outcome("confirm", c, req[c], 500, FALSE, FALSE, ops,
                                         <<loaded>>, appts, "save", doctorDetails,
                                         <<invocation>>)
                 ELSE /\ appts' = Save(appts, loaded, assigned)
                      /\ last' = Outcome("confirm", c, req[c],
                                     StatusAfterNotify(invocation.result),
                                     StatusAfterNotify(invocation.result) = 200,
                                     EmailSentFlag(invocation.result), ops,
                                     <<loaded>>, appts, "none", doctorDetails,
                                     <<invocation>>)
    /\ pc' = [pc EXCEPT ![c] = "idle"]
    /\ req' = [req EXCEPT ![c] = NoReq]
    /\ doc' = [doc EXCEPT ![c] = << >>]
    /\ UNCHANGED <<env, doctors, session, nconf, hist>>

ConfirmSave(c, outcomes) ==
    /\ pc[c] = "found"
    /\ LET loaded == doc[c][1]
           assigned == Assign(loaded, req[c], env.locale)
           doctorDetails == getDoctorById(doctors, req[c].doctorId)
       IN  \E saveOk \in BOOLEAN :
             IF ~saveOk
             THEN /\ appts' = appts
                  /\ last' = Outcome("confirm", c, req[c], 500, FALSE, FALSE,
                                     <<"findOne", "save">>, <<loaded>>, appts, "save",
                                     << >>, NoInvocation)
             ELSE \E verifyOutcome \in outcomes :
                  \E sendOutcome \in IF verifyOutcome = "ok" THEN outcomes ELSE {"ok"} :
                    LET invocation == sendAppointmentConfirmationEmail(
                            assigned, doctorDetails, env, verifyOutcome, sendOutcome)
                    IN  /\ appts' = Save(appts, loaded, assigned)
                        /\ last' = Outcome("confirm", c, req[c],
                                       StatusAfterNotify(invocation.result),
                                       StatusAfterNotify(invocation.result) = 200,
                                       EmailSentFlag(invocation.result),
                                       <<"findOne", "save", "getDoctorById",
                                         "sendAppointmentConfirmationEmail">>,
                                       <<loaded>>, appts, "none", doctorDetails,
                                       <<invocation>>)
    /\ pc' = [pc EXCEPT ![c] = "idle"]
    /\ req' = [req EXCEPT ![c] = NoReq]
    /\ doc' = [doc EXCEPT ![c] = << >>]
    /\ UNCHANGED <<env, doctors, session, nconf, hist>>

\* a caller of sendOTPEmail (the patient e-mail verification flow)
SendOTP ==
    \E verifyOutcome \in ChannelOutcomes :
    \E sendOutcome \in IF verifyOutcome = "ok" THEN ChannelOutcomes ELSE {"ok"} :
        /\ last' = Outcome("otp", 0, NoReq, 0, FALSE, FALSE,
                           <<"sendOTPEmail">>, << >>, appts, "none", << >>,
                           <<sendOTPEmail("new@x.com", "123456", env, verifyOutcome,
                                          sendOutcome)>>)
        /\ UNCHANGED <<env, doctors, appts, session, pc, req, doc, nconf, hist>>

\* a caller of verifyEmailConnection (the exported connectivity check)
VerifyConnection ==
    \E verifyOutcome \in ChannelOutcomes :
        /\ last' = Outcome("verify", 0, NoReq, 0, FALSE, FALSE,
                           <<"verifyEmailConnection">>, << >>, appts, "none", << >>,
                           <<verifyEmailConnection(env, verifyOutcome)>>)
        /\ UNCHANGED <<env, doctors, appts, session, pc, req, doc, nconf, hist>>

Init ==
    /\ env \in Environments
    /\ doctors = InitialDoctors
    /\ appts = InitialAppointments
    /\ session = [c \in Conns |-> NoSession]
    /\ pc = [c \in Conns |-> "idle"]
    /\ req = [c \in Conns |-> NoReq]
    /\ doc = [c \in Conns |-> << >>]
    /\ last = NoOutcome
    /\ nconf = 0
    /\ hist = [c \in Conns |-> NoHistory]

\* two connections issuing confirm requests that may overlap; the mail
\* account is configured, the default locale is en-US and the transport works
RaceOutcomes == {"ok"}

InitRace ==
    /\ Init
    /\ Present(env.EMAIL_USER)
    /\ Present(env.EMAIL_PASS)
    /\ env.locale = "en-US"

Next ==
    \/ \E c \in Conns : Login(c, FALSE)
    \/ \E c \in Conns : Logout(c, FALSE)
    \/ \E c \in Conns : ConfirmFind(c, RaceBodies, MaxConfirms)
    \/ \E c \in Conns : ConfirmSave(c, RaceOutcomes)

Spec == InitRace /\ [][Next]_vars

\* one connection, every configuration of the mail account and every outcome
\* of the transport, together with the OTP sender
NextMail ==
    \/ Login(1, FALSE)
    \/ Logout(1, FALSE)
    \/ ConfirmFind(1, Bodies, MaxMailConfirms)
    \/ ConfirmSave(1, ChannelOutcomes)
    \/ SendOTP

SpecMail == Init /\ [][NextMail]_vars

\* the same, together with the exported connectivity check
NextChannel ==
    \/ Login(1, FALSE)
    \/ Logout(1, FALSE)
    \/ ConfirmFind(1, Bodies, MaxMailConfirms)
    \/ ConfirmSave(1, ChannelOutcomes)
    \/ SendOTP
    \/ VerifyConnection

SpecChannel == Init /\ [][NextChannel]_vars

\* two connections issuing register, login, logout and confirm requests, the
\* responses and the session writes recorded
MaxSessionConfirms == 2

SessionBodies == {Body(Slot1, June1, Undefined)}

NextSession ==
    \/ \E c \in Conns : Register(c)
    \/ \E c \in Conns : Login(c, TRUE)
    \/ \E c \in Conns : Logout(c, TRUE)
    \/ \E c \in Conns : ConfirmFind(c, SessionBodies, MaxSessionConfirms)
    \/ \E c \in Conns : ConfirmSave(c, RaceOutcomes)

SpecSession == InitRace /\ [][NextSession]_vars

(***************************************************************************)
(* Properties.  `last` always describes the handler that completed most    *)
(* recently, and a handler's response and its store write are one step, so *)
(* a statement about "the request and the store right after it" is a state *)
(* predicate over `last` and `appts`.                                      *)
(***************************************************************************)
Fields == {"timeSlot", "appointmentDate", "confirmationMessage"}

\* the last handler was a confirm request of a logged-in doctor
ConfirmDone == last.kind = "confirm" /\ Present(last.req.doctorId)

\* some Appointment record has the request's id and the session's doctor id
OwnedRecordExists ==
    \E a \in DOMAIN appts :
        /\ appts[a].id = last.req.appointmentId
        /\ appts[a].doctorid = last.req.doctorId

\* the last handler was a confirm request whose appointment write succeeded
Saved == ConfirmDone /\ last.loaded # << >> /\ last.fault = "none"

Stored == appts[last.req.appointmentId]

\* the appointment was written by another request between this request's
\* lookup and its save
Raced == last.before[last.req.appointmentId] # last.loaded[1]

\* C1: a confirm request for which no Appointment record has both the given
\* id and the session's doctor id is answered 404 with success = false (when
\* the lookup itself completes) and leaves every Appointment record unchanged.
C1_NotOwnedIsNotFound ==
    (ConfirmDone /\ ~OwnedRecordExists) =>
        /\ ~last.success
        /\ last.fault = "none" => last.status = 404
        /\ appts = last.before

C1_Witness ==
    /\ ConfirmDone
    /\ last.status = 404
    /\ last.req.appointmentId = "a3"
    /\ appts["a3"].doctorid # last.req.doctorId

\* C2: once the appointment write has succeeded the response is 200 with
\* success = true and the stored appointment is confirmed, whatever the doctor
\* lookup returned and however the notification ended.
C2_SavedAlwaysSucceeds ==
    Saved => /\ last.status = 200
             /\ last.success
             /\ Stored.status = "confirmed"

C2_Witness ==
    /\ Saved
    /\ last.status = 200
    /\ last.doctorDetails = << >>
    /\ last.email # << >>
    /\ ~last.email[1].result.success
    /\ last.email[1].net # << >>
    /\ last.email[1].net[Len(last.email[1].net)].outcome = "EAUTH"

\* C3 (as claimed): when the notification send fails, the response carries
\* emailSent = false.
C3_FailedSendReported ==
    (Saved /\ last.status = 200 /\ last.email # << >>
           /\ ~last.email[1].result.success)
        => ~last.emailSent

\* the values a request asks to store; the message is the supplied one when
\* it is truthy and the generated sentence otherwise
Requested ==
    [timeSlot |-> last.req.timeSlot,
     appointmentDate |-> last.req.appointmentDate,
     confirmationMessage |->
        IF Truthy(last.req.confirmationMessage)
        THEN last.req.confirmationMessage
        ELSE GeneratedMessage(env.locale, last.req.timeSlot,
                              last.req.appointmentDate)]

TemplateHead ==
    <<"Your appointment has been confirmed for ">> \o last.req.timeSlot
        \o <<" on ">>

\* C4 (as claimed): with confirmationMessage omitted the persisted message is
\* the template with the long-form date (weekday, month name, day, year);
\* with a confirmationMessage supplied it is the supplied value.
C4_LongDateTemplate ==
    (Saved /\ ~Raced) =>
        Stored.confirmationMessage =
            IF last.req.confirmationMessage = Undefined
            THEN TemplateHead \o LongDate(last.req.appointmentDate)
            ELSE last.req.confirmationMessage

\* C4 (amended): with confirmationMessage omitted or empty the persisted
\* message is the template with the time slot and the numeric short date of
\* the runtime's default locale, which is not the long form of the e-mail;
\* with a non-empty confirmationMessage it is the supplied value.
C4_ShortDateTemplate ==
    (Saved /\ ~Raced) =>
        /\ Truthy(last.req.confirmationMessage) =>
              Stored.confirmationMessage = last.req.confirmationMessage
        /\ ~Truthy(last.req.confirmationMessage) =>
              /\ Stored.confirmationMessage =
                    TemplateHead \o ShortDate(env.locale, last.req.appointmentDate)
              /\ Stored.confirmationMessage #
                    TemplateHead \o LongDate(last.req.appointmentDate)

C4_Witness ==
    /\ Saved
    /\ env.locale = "en-US"
    /\ last.req.confirmationMessage = Undefined
    /\ last.req.appointmentDate = June1
    /\ Stored.confirmationMessage =
          <<"Your appointment has been confirmed for ", "10:00-10:30", " on ",
            "6", "/", "1", "/", "2", "0", "2", "4">>
    /\ last.email # << >>
    /\ last.email[1].mail # << >>
    /\ last.email[1].mail[1].subject =
          <<"Appointment Confirmed - ", "Saturday", ", ", "June", " ", "1", ", ",
            "2", "0", "2", "4">>

\* C5: confirmation is not guarded against repetition: a confirm request by
\* the owning doctor is never rejected, and when no other request wrote the
\* appointment in between, the stored time slot, date and message are those of
\* this request and the status is confirmed, whatever was stored before.
C5_LastWriteWins ==
    /\ (ConfirmDone /\ OwnedRecordExists /\ last.fault = "none") =>
          (last.status = 200 /\ last.success)
    /\ (Saved /\ ~Raced) =>
          /\ Stored.status = "confirmed"
          /\ \A f \in Fields : Stored[f] = Requested[f]

C5_Witness ==
    /\ Saved
    /\ ~Raced
    /\ last.status = 200
    /\ last.loaded[1].status = "confirmed"
    /\ last.loaded[1].timeSlot # last.req.timeSlot
    /\ last.loaded[1].appointmentDate # last.req.appointmentDate
    /\ Stored.timeSlot = last.req.timeSlot
    /\ Stored.appointmentDate = last.req.appointmentDate

\* the e-mail invocation of the last handler
Sent == last.email[1]

ConfigValid == Present(env.EMAIL_USER) /\ Present(env.EMAIL_PASS)

SendAttempts == {i \in 1..Len(Sent.net) : Sent.net[i].call = "sendMail"}

\* C6 (as claimed, for a configured mail account): with no patient e-mail
\* recorded the notification fails with MissingRecipient and takes no network
\* action at all, and the confirm request still succeeds.
C6_NoNetworkAction ==
    (Saved /\ ~Present(Stored.patientEmail) /\ ConfigValid) =>
        /\ last.status = 200
        /\ last.email # << >>
        /\ Sent.result.error = "Patient email not found"
        /\ Sent.net = << >>

\* C6 (amended): with no patient e-mail recorded no send is attempted and the
\* notification returns a failure while the confirm request still succeeds;
\* the recipient is checked only after the configuration check and the
\* connectivity check, so with a valid configuration the connectivity check
\* is made, and the failure is MissingRecipient exactly when that check
\* succeeded.
C6_NoSendWithoutRecipient ==
    (Saved /\ ~Present(Stored.patientEmail)) =>
        /\ last.status = 200
        /\ last.success
        /\ last.email # << >>
        /\ ~Sent.result.success
        /\ SendAttempts = {}
        /\ Sent.mail = << >>
        /\ ConfigValid => (Len(Sent.net) = 1 /\ Sent.net[1].call = "verify")
        /\ (Sent.result.error = "Patient email not found")
              <=> (ConfigValid /\ Sent.net = <<Call("verify", "ok")>>)

C6_Witness ==
    /\ Saved
    /\ ~Present(Stored.patientEmail)
    /\ last.status = 200
    /\ Sent.result.error = "Patient email not found"
    /\ Sent.net = <<Call("verify", "ok")>>

\* C7: with EMAIL_USER or EMAIL_PASS absent every notification send (the
\* appointment confirmation and the OTP) returns a configuration-error result
\* without calling the transporter: no connectivity check, no send; the
\* caller gets a result, not an exception.
C7_ConfigurationErrorFirst ==
    /\ (Saved \/ last.kind = "otp") => Len(last.email) = 1
    /\ (last.email # << >> /\ ~ConfigValid) =>
          /\ ~Sent.result.success
          /\ Sent.result.error =
                IF ~Present(env.EMAIL_USER)
                THEN "EMAIL_USER is not set in environment variables"
                ELSE "EMAIL_PASS is not set in environment variables"
          /\ Sent.net = << >>
          /\ Sent.mail = << >>

C7_Witness ==
    /\ last.kind = "otp"
    /\ Present(env.EMAIL_USER)
    /\ ~Present(env.EMAIL_PASS)
    /\ Sent.result.error = "EMAIL_PASS is not set in environment variables"
    /\ Sent.net = << >>

\* C8: in one invocation of the notification send the connectivity check
\* comes first, the send is attempted only after a successful check, and at
\* most one send is attempted (no retry); one confirm request makes at most
\* one invocation, hence delivers at most one message.
C8_SingleAttempt ==
    last.email # << >> =>
        /\ Len(last.email) = 1
        /\ Len(Sent.net) >= 1 => Sent.net[1].call = "verify"
        /\ \A i \in SendAttempts : i = 2 /\ Sent.net[1] = Call("verify", "ok")
        /\ Cardinality(SendAttempts) <= 1
        /\ Len(Sent.mail) = Cardinality(SendAttempts)
        /\ Sent.result.success =>
              Sent.net = <<Call("verify", "ok"), Call("sendMail", "ok")>>

C8_Witness ==
    /\ Saved
    /\ ~Sent.result.success
    /\ Sent.net = <<Call("verify", "ok"), Call("sendMail", "ETIMEDOUT")>>

\* C9 (as claimed): when a Doctor record with the session's doctor id exists,
\* the workflow's doctor lookup returns it and the rendered notification
\* names the doctor and the specialization.
C9_DoctorInNotification ==
    (Saved /\ last.email # << >> /\ last.req.doctorId \in DOMAIN doctors) =>
        LET d == doctors[last.req.doctorId]
        IN  /\ last.doctorDetails = <<d>>
            /\ Sent.mail # << >> =>
                  /\ \E i \in 1..Len(Sent.mail[1].html) :
                        Sent.mail[1].html[i] = <<"Doctor: Dr. ", d.name>>
                  /\ \E i \in 1..Len(Sent.mail[1].html) :
                        Sent.mail[1].html[i] = <<"Specialization: ", d.specialization>>

\* C10 (as claimed): after a confirm request that overlapped another one on
\* the same appointment, the stored time slot, date and message all come
\* from one single request: all three are this request's values, or (when
\* this request changed nothing) all three are as the record stood before.
C10_NoMixture ==
    Saved => \/ \A f \in Fields : Stored[f] = Requested[f]
             \/ \A f \in Fields : Stored[f] = last.before[last.req.appointmentId][f]

\* C10 (amended): overlapping confirm requests are neither rejected nor
\* blocked and leave the status confirmed; save() writes only the fields whose
\* new value differs from the value the request had read, so each of time
\* slot, date and message holds the last writer's value where the last writer
\* changed it and otherwise keeps what the other request stored (the record
\* can mix the two requests); no other appointment's record is touched.
C10_FieldWiseLastWrite ==
    /\ (ConfirmDone /\ OwnedRecordExists /\ last.fault = "none") =>
          (last.status = 200 /\ last.success)
    /\ Saved =>
          /\ Stored.status = "confirmed"
          /\ \A f \in Fields :
                Stored[f] = IF Requested[f] # last.loaded[1][f]
                            THEN Requested[f]
                            ELSE last.before[last.req.appointmentId][f]
          /\ \A a \in DOMAIN appts :
                a # last.req.appointmentId => appts[a] = last.before[a]

C10_Witness ==
    /\ Saved
    /\ Raced
    /\ last.status = 200
    /\ Stored.status = "confirmed"
    /\ Stored.timeSlot # last.req.timeSlot
    /\ Stored.timeSlot = last.before[last.req.appointmentId].timeSlot
    /\ Stored.confirmationMessage = Requested.confirmationMessage
    /\ Stored.confirmationMessage #
          last.before[last.req.appointmentId].confirmationMessage

\* the positions in the last handler's operations of the doctor lookup and of
\* the notification send, and of the appointment write
AfterWriteOps ==
    {i \in 1..Len(last.ops) :
        last.ops[i] \in {"getDoctorById", "sendAppointmentConfirmationEmail"}}

WriteOps == {i \in 1..Len(last.ops) : last.ops[i] = "save"}

\* C11: in a confirm request the doctor lookup and the notification send come
\* only after an appointment write that succeeded; when the appointment
\* lookup or the write raises a persistence error the response is 500 with
\* success = false and a message carrying the error's text, no Appointment
\* record changes, and neither the doctor lookup nor a notification send is
\* made.
C11_NotifyOnlyAfterWrite ==
    last.kind = "confirm" =>
        /\ AfterWriteOps # {} =>
              /\ last.fault = "none"
              /\ \A i \in AfterWriteOps : \E j \in WriteOps : j < i
              /\ Stored.status = "confirmed"
        /\ last.email # << >> => "sendAppointmentConfirmationEmail" \in
                                     {last.ops[i] : i \in AfterWriteOps}
        /\ last.fault # "none" =>
              /\ last.status = 500
              /\ ~last.success
              /\ Len(last.message) = 2
              /\ last.message[1] = "Error confirming appointment: "
              /\ last.message[2] = PersistenceError(last.fault)
              /\ last.message[2] # ""
              /\ AfterWriteOps = {}
              /\ last.doctorDetails = << >>
              /\ last.email = << >>
              /\ appts = last.before

C11_Witness ==
    /\ last.kind = "confirm"
    /\ last.fault = "save"
    /\ last.status = 500
    /\ last.ops = <<"findOne", "save">>
    /\ last.loaded # << >>
    /\ last.email = << >>

\* the last call the invocation made on the transporter rejected
ChannelFailed ==
    /\ last.email # << >>
    /\ Sent.net # << >>
    /\ Sent.net[Len(Sent.net)].outcome # "ok"

\* the error that call rejected with
Raised == ErrorOf(Sent.net[Len(Sent.net)].outcome)

\* the kind the claim assigns to an error
ClaimedKind(error) ==
    IF error.code = "EAUTH" THEN "AuthenticationFailure"
    ELSE IF error.code \in {"ECONNECTION", "ETIMEDOUT"} THEN "ConnectionFailure"
    ELSE "Unknown"

\* the kind a returned failure result reports, read from its error text
ReportedKind(result) ==
    IF result.error \in
         {"Email authentication failed. Please check your email configuration.",
          "Authentication failed. Please check your EMAIL_USER and EMAIL_PASS. Make sure you're using a Gmail App Password, not your regular password."}
    THEN "AuthenticationFailure"
    ELSE IF result.error \in
         {"Connection error. Please check your internet connection.",
          "Connection failed. Please check your internet connection."}
    THEN "ConnectionFailure"
    ELSE "Unknown"

\* the statement of C12 for the handlers in kinds
ClassifiedAsClaimed(kinds) ==
    (last.kind \in kinds /\ ChannelFailed) =>
        /\ Len(last.email) = 1
        /\ ~Sent.result.success
        /\ Sent.result.messageId = NULL
        /\ ReportedKind(Sent.result) = ClaimedKind(Raised)
        /\ (ClaimedKind(Raised) = "Unknown" /\ Raised.message # "") =>
              Sent.result.error = Raised.message
        /\ last.kind = "confirm" => (last.status = 200 /\ last.fault = "none")

\* C12 (as claimed): every failure raised by the connectivity check or by the
\* send comes back as a failure result, never as delivered and never as an
\* exception, classified AuthenticationFailure for EAUTH, ConnectionFailure
\* for ECONNECTION and ETIMEDOUT, and Unknown with the error's message for
\* anything else; stated for the confirmation send and for the exported
\* connectivity check.
C12_FailuresClassified == ClassifiedAsClaimed({"confirm", "verify"})

\* the doctors added by POST /register
Registered == DOMAIN doctors \ DoctorIds

\* C13: a connection's session holds a doctor identifier only if the most
\* recent request that wrote the session was a login whose e-mail matched an
\* existing doctor with status approved and whose password was valid, and it
\* then holds that doctor's identifier; after a logout it holds none; a
\* doctor created by register is pending, is refused at login with 403 and
\* is in no session; a confirm request arriving with no doctor identifier in
\* the session is redirected (302) without touching the Appointment Store.
C13_SessionOnlyByApprovedLogin ==
    /\ \A c \in Conns :
          /\ Present(session[c].doctorId) =>
                /\ hist[c].kind = "login"
                /\ \E d \in DOMAIN doctors :
                      /\ doctors[d].email = hist[c].email
                      /\ doctors[d].status = "approved"
                      /\ Compare(hist[c].password, doctors[d].passwordHash)
                      /\ session[c] = [doctorId |-> doctors[d].doctorid,
                                       doctorEmail |-> doctors[d].email]
          /\ hist[c].kind # "login" => session[c] = NoSession
          /\ \A d \in Registered : session[c].doctorId # doctors[d].doctorid
    /\ \A d \in Registered : doctors[d].status = "pending"
    /\ (last.kind = "login" /\ last.doctorDetails # << >>) =>
          (last.doctorDetails[1].doctorid \in Registered =>
              (last.status = 403 /\ ~last.success))
    /\ (last.kind = "confirm" /\ ~Present(last.req.doctorId)) =>
          /\ last.status = 302
          /\ ~last.success
          /\ last.ops = << >>
          /\ appts = last.before

C13_Witness ==
    /\ Registered # {}
    /\ last.kind = "login"
    /\ last.status = 403
    /\ last.conn = 1
    /\ last.doctorDetails # << >>
    /\ last.doctorDetails[1].email = "lee@clinic.org"
    /\ hist[1].kind = "logout"
    /\ session[1] = NoSession
    /\ hist[2].kind = "login"
    /\ session[2].doctorId = "d1"

====
